---- MODULE Spec2Model ----
(***************************************************************************)
(* Model of the rss-fee repository.                                        *)
(*                                                                         *)
(*   scripts/generate_feed.py : the NSE/BSE polling loop (main, run_once,  *)
(*       make_record, fetch_yf_snapshot, fetch_nse_circuits, the CSV/XML   *)
(*       writers and push_to_git).  Specification: Spec.                   *)
(*   generate_feed.py : the combined RSS feed (all_items, top50).          *)
(*       Specification: FeedSpec.                                          *)
(*                                                                         *)
(* Python values are encoded with one shape per kind so that TLC can       *)
(* compare them: an upstream number is a record [k, v]; an optional        *)
(* object is a sequence of length 0 or 1; every emitted field is a string. *)
(***************************************************************************)
EXTENDS Integers, Sequences, FiniteSets, TLC

VARIABLES pc, step, cycle, gitPush, snap, upstream, nse, bse, inflight,
          warmups, attempts, warmupFailed, csvExists, csvTail,
          xmlDoc, pushCalls, err, logged, decision,
          all_items, feedIdx, fpc, top50, feedXml

vars == <<pc, step, cycle, gitPush, snap, upstream, nse, bse, inflight,
          warmups, attempts, warmupFailed, csvExists, csvTail,
          xmlDoc, pushCalls, err, logged, decision,
          all_items, feedIdx, fpc, top50, feedXml>>

pollVars == <<pc, step, cycle, gitPush, snap, upstream, nse, bse, inflight,
              warmups, attempts, warmupFailed, csvExists, csvTail,
              xmlDoc, pushCalls, err, logged, decision>>

feedVars == <<all_items, feedIdx, fpc, top50, feedXml>>

(***************************************************************************)
(* Bounds of the model.                                                    *)
(***************************************************************************)
\* polling cycles explored (the loop of main is unbounded)
MaxCycles == 2
\* cap on the quote requests of one fetch (reached only if the handler retried)
MaxAttempts == 3

(***************************************************************************)
(* Upstream values.  A price is held in hundredths, a volume in units.     *)
(***************************************************************************)
None == [k |-> "none", v |-> 0]
Num(n) == [k |-> "num", v |-> n]
NaN == [k |-> "nan", v |-> 0]
\* a non-numeric string such as "N/A" or NSE's "No Band"
Str == [k |-> "str", v |-> 0]

\* <<price, volume>> as one yfinance mapping carries them
YfPairs == {<<Num(12345), Num(500)>>, <<Num(0), Num(0)>>, <<None, None>>,
            <<NaN, Num(500)>>, <<Str, Num(500)>>, <<Num(12345), Num(0)>>,
            <<Num(12345), None>>}
\* <<lower, upper>> as one price band carries them
BandPairs == {<<None, None>>, <<Num(0), Num(11110)>>, <<Num(9090), Num(11110)>>,
              <<Num(9090), None>>, <<Str, Str>>, <<Num(0), Str>>}

(***************************************************************************)
(* fmt_num: "" for None, NaN and infinity, else the value with 2 decimals. *)
(* A str has no 'f' format: the f-string raises ValueError.                *)
(***************************************************************************)
TwoDigits(n) == IF n < 10 THEN "0" \o ToString(n) ELSE ToString(n)

fmt_num_raises(x) == x.k = "str"

fmt_num(x) ==
    IF x.k \in {"none", "nan"} THEN ""
    ELSE IF x.v < 0
         THEN "-" \o ToString((-x.v) \div 100) \o "." \o TwoDigits((-x.v) % 100)
         ELSE ToString(x.v \div 100) \o "." \o TwoDigits(x.v % 100)

\* str(v or ""): every falsy v (None, 0) becomes "", anything else its str()
str_or_empty(x) ==
    CASE x.k = "none" -> ""
      [] x.k = "num" -> IF x.v = 0 THEN "" ELSE ToString(x.v)
      [] x.k = "nan" -> "nan"
      [] OTHER -> "N/A"

(***************************************************************************)
(* yfinance: the fast_info and info mappings, and the lookup g.            *)
(***************************************************************************)
PrimaryKeys == {"open", "previousClose", "dayLow", "dayHigh", "yearLow",
                "yearHigh", "volume"}
AltKeys == {"regularMarketOpen", "regularMarketPreviousClose",
            "regularMarketDayLow", "regularMarketDayHigh", "fiftyTwoWeekLow",
            "fiftyTwoWeekHigh", "regularMarketVolume"}
YfKeys == PrimaryKeys \cup AltKeys

\* {}: also what `tk.fast_info or {}` / the except branch leave behind
EmptyDict == [key \in YfKeys |-> None]

MkDict(keys, price, vol) ==
    [key \in YfKeys |->
        IF key \notin keys THEN None
        ELSE IF key \in {"volume", "regularMarketVolume"} THEN vol ELSE price]

YfDicts ==
    {EmptyDict} \cup
    {MkDict(ks, pv[1], pv[2]) : ks \in {PrimaryKeys, AltKeys}, pv \in YfPairs}

g(fi, info, key, alt) ==
    IF fi[key] # None THEN fi[key]
    ELSE IF fi[alt] # None THEN fi[alt]
    ELSE IF info[key] # None THEN info[key]
    ELSE IF info[alt] # None THEN info[alt]
    ELSE None

\* the values g returns for the seven fields of the snapshot
yf_lookup(fi, info) ==
    [open        |-> g(fi, info, "open", "regularMarketOpen"),
     prev_close  |-> g(fi, info, "previousClose", "regularMarketPreviousClose"),
     todays_low  |-> g(fi, info, "dayLow", "regularMarketDayLow"),
     todays_high |-> g(fi, info, "dayHigh", "regularMarketDayHigh"),
     week52_low  |-> g(fi, info, "yearLow", "fiftyTwoWeekLow"),
     week52_high |-> g(fi, info, "yearHigh", "fiftyTwoWeekHigh"),
     volume      |-> g(fi, info, "volume", "regularMarketVolume")]

FmtFields == {"open", "prev_close", "todays_low", "todays_high",
              "week52_low", "week52_high"}
SnapFields == FmtFields \cup {"volume"}
CircuitFields == {"lower_circuit", "upper_circuit"}
NumericFields == SnapFields \cup CircuitFields

fetch_yf_snapshot_raises(fi, info) ==
    \E f \in FmtFields : fmt_num_raises(yf_lookup(fi, info)[f])

fetch_yf_snapshot(fi, info) ==
    [f \in SnapFields |->
        IF f = "volume" THEN str_or_empty(yf_lookup(fi, info)[f])
        ELSE fmt_num(yf_lookup(fi, info)[f])]

(***************************************************************************)
(* fetch_nse_circuits: the responses of the NSE quote API.                 *)
(***************************************************************************)
NoBand == [present |-> FALSE, lower |-> None, upper |-> None]
Bands == {[present |-> TRUE, lower |-> lu[1], upper |-> lu[2]] :
              lu \in BandPairs}

\* a JSON object carrying the band under "priceBand" or under "priceband"
JsonBodies ==
    {[priceBand |-> b, priceband |-> NoBand] : b \in Bands \cup {NoBand}} \cup
    {[priceBand |-> NoBand, priceband |-> b] : b \in Bands}

HttpStatuses == {200, 401, 403, 429}

\* net = FALSE: the request itself failed (connection error, timeout);
\* json = FALSE: the body is not JSON (an anti-bot HTML page)
NoData == [priceBand |-> NoBand, priceband |-> NoBand]

QuoteResponses ==
    {[net |-> FALSE, status |-> 0, json |-> FALSE, data |-> NoData]} \cup
    {[net |-> TRUE, status |-> s, json |-> FALSE, data |-> NoData] :
        s \in HttpStatuses} \cup
    {[net |-> TRUE, status |-> 200, json |-> TRUE, data |-> d] : d \in JsonBodies}

\* band = data.get("priceBand", {}) or data.get("priceband", {}) or {}
price_band(data) ==
    IF data.priceBand.present THEN data.priceBand
    ELSE IF data.priceband.present THEN data.priceband
    ELSE NoBand

\* float(lower) / float(upper) of a non-numeric string raises ValueError
parse_raises(data) ==
    price_band(data).lower.k = "str" \/ price_band(data).upper.k = "str"

\* the outcome of one quote request, in the spec's error taxonomy
Classify(r) ==
    IF ~r.net THEN "NetworkError"
    ELSE IF r.status = 401 THEN "Unauthorized"
    ELSE IF r.status = 403 THEN "Forbidden"
    ELSE IF r.status # 200 THEN "RateLimited"
    ELSE IF ~r.json \/ parse_raises(r.data) THEN "MalformedResponse"
    ELSE "Success"

EmptyCircuits == [lower_circuit |-> "", upper_circuit |-> ""]

\* lines 151-157: fmt_num(float(x)) if x is not None else ""
parse_circuits(data) ==
    [lower_circuit |-> fmt_num(price_band(data).lower),
     upper_circuit |-> fmt_num(price_band(data).upper)]

\* what the response supplied for the two circuit fields
circuits_lookup(r) ==
    IF r.net /\ r.status = 200 /\ r.json
    THEN [lower_circuit |-> price_band(r.data).lower,
          upper_circuit |-> price_band(r.data).upper]
    ELSE [lower_circuit |-> None, upper_circuit |-> None]

\* the spec's retry limit; the source has no retry limit of its own
maxRetries == 3

RetryOnceAfterRenewal(attemptNumber, errorKind, renewed) ==
    IF errorKind \in {"Unauthorized", "Forbidden"} /\ ~renewed
    THEN "RenewSessionThenRetry" ELSE "GiveUp"

RetryUpToLimit(attemptNumber, errorKind, renewed) ==
    IF attemptNumber < maxRetries /\ errorKind # "WarmUpError"
    THEN "RetryAfter" ELSE "GiveUp"

PropagateWarmUpError(attemptNumber, errorKind, renewed) ==
    IF errorKind = "WarmUpError" THEN "Abort" ELSE "GiveUp"

\* `except Exception: return {"lower_circuit": "", "upper_circuit": ""}`:
\* whatever failed, and at whichever attempt, the fetch ends with empty values.
\* errorKind "WarmUpError" is a failure of the warm-up request.
RetryDecision(attemptNumber, errorKind, renewed) == "GiveUp"

(***************************************************************************)
(* make_record, run_once and main.                                         *)
(***************************************************************************)
SYMBOL == "RELIANCE"
Exchanges == {"NSE", "BSE"}

\* the time is counted in poll intervals
now_ist_iso == cycle

make_record(exchange, s, circuits) ==
    [timestamp |-> now_ist_iso, exchange |-> exchange, symbol |-> SYMBOL,
     open |-> s["open"], prev_close |-> s["prev_close"],
     todays_low |-> s["todays_low"], todays_high |-> s["todays_high"],
     week52_low |-> s["week52_low"], week52_high |-> s["week52_high"],
     volume |-> s["volume"],
     lower_circuit |-> circuits.lower_circuit,
     upper_circuit |-> circuits.upper_circuit]

\* the row append_csv_row writes: the twelve columns of the record
csv_row(rec) == rec

\* write_xml: one <stock> element per exchange, NSE first
xml_document(records) ==
    [generatedAt |-> now_ist_iso,
     stocks |-> <<records["NSE"], records["BSE"]>>]

RunOnceEarlyCsv(p) ==
    CASE p = "make_nse" -> "csv_nse"
      [] p = "csv_nse" -> "make_bse"
      [] p = "make_bse" -> "csv_bse"
      [] p = "csv_bse" -> "write_xml"
      [] p = "write_xml" -> "push"
      [] p = "push" -> "print"
      [] OTHER -> "sleep"

\* the statements of run_once, in order
RunOnceNext(p) ==
    CASE p = "make_nse" -> "make_bse"
      [] p = "make_bse" -> "csv_nse"
      [] p = "csv_nse" -> "csv_bse"
      [] p = "csv_bse" -> "write_xml"
      [] p = "write_xml" -> "push"
      [] p = "push" -> "print"
      [] OTHER -> "sleep"

FirstStep(p) == IF p \in {"make_nse", "make_bse"} THEN "yf" ELSE "-"

ReraiseEverything(e) == "stopped"

\* main: `except KeyboardInterrupt: raise`, `except Exception: print(...)`
MainExcept(e) == IF e = "KeyboardInterrupt" THEN "stopped" ELSE "log_error"

NoUpstream == [f \in NumericFields |-> None]
NoRequests == [warmup |-> 0, quote |-> 0]

PollInit ==
    /\ pc = "make_nse" /\ step = "yf" /\ cycle = 1
    /\ gitPush \in BOOLEAN
    /\ snap = <<>> /\ nse = <<>> /\ bse = <<>>
    /\ upstream = [e \in Exchanges |-> NoUpstream]
    /\ inflight = NoRequests
    /\ warmups = 0 /\ attempts = <<>> /\ warmupFailed = FALSE
    /\ decision = ""
    /\ csvExists \in BOOLEAN /\ csvTail = <<>>
    /\ xmlDoc = <<>> /\ pushCalls = <<>>
    /\ err = "" /\ logged = <<>>

\* an exception leaves run_once and reaches the try of main
Raise(e) ==
    /\ pc' = MainExcept(e)
    /\ step' = "-"
    /\ err' = e
    /\ inflight' = NoRequests

\* make_record returns: the record is bound and run_once goes on
Return(rec) ==
    /\ IF pc = "make_nse"
       THEN nse' = <<rec>> /\ bse' = bse
       ELSE bse' = <<rec>> /\ nse' = nse
    /\ pc' = RunOnceNext(pc)
    /\ step' = FirstStep(RunOnceNext(pc))
    /\ snap' = <<>>

Exchange == IF pc = "make_nse" THEN "NSE" ELSE "BSE"

\* snap = fetch_yf_snapshot(yf_ticker); BSE circuits are left blank
YfSnapshot ==
    /\ pc \in {"make_nse", "make_bse"} /\ step = "yf"
    /\ \E fi \in YfDicts, info \in YfDicts :
         IF fetch_yf_snapshot_raises(fi, info)
         THEN /\ Raise("ValueError")
              /\ UNCHANGED <<snap, upstream, nse, bse>>
         ELSE /\ upstream' = [upstream EXCEPT ![Exchange] =
                    [f \in NumericFields |->
                        IF f \in SnapFields THEN yf_lookup(fi, info)[f]
                        ELSE None]]
              /\ IF pc = "make_nse"
                 THEN /\ snap' = <<fetch_yf_snapshot(fi, info)>>
                      /\ step' = "warmup"
                      /\ UNCHANGED <<pc, nse, bse>>
                 ELSE Return(make_record("BSE", fetch_yf_snapshot(fi, info),
                                         EmptyCircuits))
              /\ UNCHANGED <<err, inflight>>
    /\ UNCHANGED <<cycle, gitPush, warmups, attempts, warmupFailed, decision,
                   csvExists, csvTail, xmlDoc, pushCalls,
                   logged>>
    /\ UNCHANGED feedVars

FireAndForgetWarmUp == "warmup"

\* where the fetch stands once the warm-up request is sent: s.get blocks
\* until the response (or the failure) is there
AwaitWarmUp == "warmup_wait"

\* s = requests.Session(); s.get("https://www.nseindia.com/", ...)
IssueWarmUp ==
    /\ pc = "make_nse" /\ step = "warmup"
    /\ warmups < MaxAttempts
    /\ inflight' = [inflight EXCEPT !.warmup = @ + 1]
    /\ warmups' = warmups + 1
    /\ step' = AwaitWarmUp
    /\ UNCHANGED <<pc, cycle, gitPush, snap, upstream, nse, bse, attempts,
                   warmupFailed, decision, csvExists, csvTail, xmlDoc,
                   pushCalls, err, logged>>
    /\ UNCHANGED feedVars

\* the except clause of fetch_nse_circuits, reached with errorKind
OnFetchError(errorKind, n) ==
    LET d == RetryDecision(n, errorKind, warmups > 1) IN
    /\ decision' = d
    /\ CASE d = "GiveUp" ->
              /\ Return(make_record("NSE", snap[1], EmptyCircuits))
              /\ UNCHANGED err
         [] d = "RetryAfter" ->
              /\ step' = "quote"
              /\ UNCHANGED <<pc, snap, nse, bse, err>>
         [] d = "RenewSessionThenRetry" ->
              /\ step' = "warmup"
              /\ UNCHANGED <<pc, snap, nse, bse, err>>
         [] OTHER ->
              /\ pc' = MainExcept("ConnectionError")
              /\ step' = "-"
              /\ err' = "ConnectionError"
              /\ UNCHANGED <<snap, nse, bse>>

\* the warm-up returns (its status is not looked at) or raises
WarmUpResponse ==
    /\ pc = "make_nse" /\ step = "warmup_wait"
    /\ inflight.warmup > 0
    /\ inflight' = [inflight EXCEPT !.warmup = @ - 1]
    /\ \E ok \in BOOLEAN :
         IF ok
         THEN /\ step' = "quote"
              /\ UNCHANGED <<pc, snap, nse, bse, err, decision, warmupFailed>>
         ELSE /\ warmupFailed' = TRUE
              /\ OnFetchError("WarmUpError", Len(attempts))
    /\ UNCHANGED <<cycle, gitPush, upstream, warmups, attempts, csvExists,
                   csvTail, xmlDoc, pushCalls, logged>>
    /\ UNCHANGED feedVars

\* r = s.get(url, ...)
IssueQuote ==
    /\ pc = "make_nse" /\ step = "quote"
    /\ Len(attempts) < MaxAttempts
    /\ inflight' = [inflight EXCEPT !.quote = @ + 1]
    /\ step' = "quote_wait"
    /\ UNCHANGED <<pc, cycle, gitPush, snap, upstream, nse, bse, warmups,
                   attempts, warmupFailed, decision, csvExists, csvTail, xmlDoc, pushCalls, err, logged>>
    /\ UNCHANGED feedVars

\* r.raise_for_status(); data = r.json(); ...; return the two circuits
QuoteResponse ==
    /\ pc = "make_nse" /\ step = "quote_wait"
    /\ inflight' = [inflight EXCEPT !.quote = @ - 1]
    /\ \E r \in QuoteResponses :
         /\ attempts' = Append(attempts, Classify(r))
         /\ IF Classify(r) = "Success"
            THEN /\ upstream' = [upstream EXCEPT !["NSE"] =
                       [f \in NumericFields |->
                           IF f \in CircuitFields THEN circuits_lookup(r)[f]
                           ELSE @[f]]]
                 /\ Return(make_record("NSE", snap[1], parse_circuits(r.data)))
                 /\ UNCHANGED <<err, decision>>
            ELSE /\ upstream' = [upstream EXCEPT !["NSE"] =
                       [f \in NumericFields |->
                           IF f \in CircuitFields THEN circuits_lookup(r)[f]
                           ELSE @[f]]]
                 /\ OnFetchError(Classify(r), Len(attempts) + 1)
    /\ UNCHANGED <<cycle, gitPush, warmups, warmupFailed, csvExists, csvTail, xmlDoc, pushCalls, logged>>
    /\ UNCHANGED feedVars

\* append_csv_row(CSV_PATH, nse) / append_csv_row(CSV_PATH, bse)
AppendCsv ==
    /\ pc \in {"csv_nse", "csv_bse"}
    /\ \E ok \in BOOLEAN :
         IF ok
         THEN /\ csvExists' = TRUE
              /\ csvTail' = Append(csvTail,
                     IF pc = "csv_nse" THEN csv_row(nse[1]) ELSE csv_row(bse[1]))
              /\ pc' = RunOnceNext(pc)
              /\ step' = FirstStep(RunOnceNext(pc))
              /\ UNCHANGED <<err, inflight>>
         ELSE /\ Raise("OSError")
              /\ UNCHANGED <<csvExists, csvTail>>
    /\ UNCHANGED <<cycle, gitPush, snap, upstream, nse, bse, warmups, attempts,
                   warmupFailed, decision, xmlDoc, pushCalls, logged>>
    /\ UNCHANGED feedVars

\* write_xml(XML_PATH, {"NSE": nse, "BSE": bse})
WriteXml ==
    /\ pc = "write_xml"
    /\ \E ok \in BOOLEAN :
         IF ok
         THEN /\ xmlDoc' = <<xml_document([NSE |-> nse[1], BSE |-> bse[1]])>>
              /\ pc' = RunOnceNext(pc)
              /\ step' = FirstStep(RunOnceNext(pc))
              /\ UNCHANGED <<err, inflight>>
         ELSE /\ Raise("OSError")
              /\ UNCHANGED xmlDoc
    /\ UNCHANGED <<cycle, gitPush, snap, upstream, nse, bse, warmups, attempts,
                   warmupFailed, decision, csvExists, csvTail,
                   pushCalls, logged>>
    /\ UNCHANGED feedVars

\* if GIT_PUSH: push_to_git() -- which swallows every Exception of its own
PushToGit ==
    /\ pc = "push"
    /\ IF gitPush
       THEN \E outcome \in {"pushed", "nothing to commit", "failed"} :
                pushCalls' = Append(pushCalls, outcome)
       ELSE UNCHANGED pushCalls
    /\ pc' = RunOnceNext(pc)
    /\ step' = FirstStep(RunOnceNext(pc))
    /\ UNCHANGED <<cycle, gitPush, snap, upstream, nse, bse, inflight, warmups,
                   attempts, warmupFailed, decision, csvExists, csvTail, xmlDoc, err, logged>>
    /\ UNCHANGED feedVars

\* print(f"[...] Updated CSV + XML for ...")
PrintUpdated ==
    /\ pc = "print"
    /\ pc' = RunOnceNext(pc)
    /\ step' = "-"
    /\ UNCHANGED <<cycle, gitPush, snap, upstream, nse, bse, inflight, warmups,
                   attempts, warmupFailed, decision, csvExists, csvTail, xmlDoc, pushCalls, err, logged>>
    /\ UNCHANGED feedVars

\* except Exception as e: print(f"[error] {e}")
LogError ==
    /\ pc = "log_error"
    /\ logged' = Append(logged, err)
    /\ pc' = "sleep"
    /\ UNCHANGED <<step, cycle, gitPush, snap, upstream, nse, bse, inflight,
                   warmups, attempts, warmupFailed, decision, csvExists,
                   csvTail, xmlDoc, pushCalls, err>>
    /\ UNCHANGED feedVars

\* time.sleep(INTERVAL_SEC), then the next run_once(SYMBOL).  What the files
\* and the console hold from earlier cycles stays there; csvTail, xmlDoc,
\* pushCalls and logged hold what the current cycle wrote.
Sleep ==
    /\ pc = "sleep"
    /\ cycle < MaxCycles
    /\ cycle' = cycle + 1
    /\ pc' = "make_nse" /\ step' = "yf"
    /\ snap' = <<>> /\ nse' = <<>> /\ bse' = <<>>
    /\ upstream' = [e \in Exchanges |-> NoUpstream]
    /\ warmups' = 0 /\ attempts' = <<>> /\ warmupFailed' = FALSE
    /\ decision' = ""
    /\ csvTail' = <<>> /\ xmlDoc' = <<>> /\ pushCalls' = <<>>
    /\ err' = "" /\ logged' = <<>>
    /\ UNCHANGED <<gitPush, inflight, csvExists>>
    /\ UNCHANGED feedVars

\* Ctrl+C: KeyboardInterrupt is no Exception, so only main sees it
Interrupt ==
    /\ pc # "stopped"
    /\ pc' = MainExcept("KeyboardInterrupt")
    /\ step' = "-"
    /\ err' = "KeyboardInterrupt"
    /\ inflight' = NoRequests
    /\ UNCHANGED <<cycle, gitPush, snap, upstream, nse, bse, warmups, attempts,
                   warmupFailed, decision, csvExists, csvTail, xmlDoc,
                   pushCalls, logged>>
    /\ UNCHANGED feedVars

PollNext ==
    \/ YfSnapshot
    \/ IssueWarmUp
    \/ WarmUpResponse
    \/ IssueQuote
    \/ QuoteResponse
    \/ AppendCsv
    \/ WriteXml
    \/ PushToGit
    \/ PrintUpdated
    \/ LogError
    \/ Sleep
    \/ Interrupt

PollIdle ==
    /\ pc = "idle" /\ step = "-" /\ cycle = 0 /\ gitPush = FALSE
    /\ snap = <<>> /\ nse = <<>> /\ bse = <<>>
    /\ upstream = [e \in Exchanges |-> NoUpstream]
    /\ inflight = NoRequests
    /\ warmups = 0 /\ attempts = <<>> /\ warmupFailed = FALSE
    /\ decision = ""
    /\ csvExists = FALSE /\ csvTail = <<>>
    /\ xmlDoc = <<>> /\ pushCalls = <<>>
    /\ err = "" /\ logged = <<>>

(***************************************************************************)
(* generate_feed.py: the combined RSS feed.                                *)
(***************************************************************************)
\* bounds of the feeds explored
MaxLink == 2
MaxTime == 2
LongFeedLen == 49

\* the four URLs of `feeds`
NumFeeds == 4
\* the cut of top50
TopN == 50

\* an entry of a parsed feed; published = <<>> when published_parsed is None.
\* title and description travel with the entry and take no part in the order.
Entry(l, t) == [link |-> l, published |-> <<t>>]
Undated(l) == [link |-> l, published |-> <<>>]

\* a long feed: LongFeedLen distinct entries of one publication time
LongFeed == [i \in 1..LongFeedLen |-> Entry(100 + i, 0)]

FeedEntries(url) ==
    {<<>>, <<Undated(1)>>}
    \cup {<<Entry(l, t)>> : l \in 1..MaxLink, t \in 1..MaxTime}
    \cup (IF url = 1 THEN {LongFeed} ELSE {})

\* all_items.append({... "link": e.link, "pubDate": datetime(*e.published_parsed[:6])})
item(e) == [link |-> e.link, pubDate |-> e.published[1]]

Min(a, b) == IF a < b THEN a ELSE b

RECURSIVE by_key_desc(_, _)
by_key_desc(s, keys) ==
    IF keys = {} THEN <<>>
    ELSE LET m == CHOOSE k \in keys : \A j \in keys : j <= k
         IN  SelectSeq(s, LAMBDA x : x.pubDate = m) \o by_key_desc(s, keys \ {m})

RECURSIVE by_key_asc(_, _)
by_key_asc(s, keys) ==
    IF keys = {} THEN <<>>
    ELSE LET m == CHOOSE k \in keys : \A j \in keys : k <= j
         IN  SelectSeq(s, LAMBDA x : x.pubDate = m) \o by_key_asc(s, keys \ {m})

sorted_ascending(s) == by_key_asc(s, {s[i].pubDate : i \in DOMAIN s})

\* sorted(s, key=lambda x: x["pubDate"], reverse=True): a stable sort, so
\* items of equal pubDate keep the order they arrived in
sorted_reverse(s) == by_key_desc(s, {s[i].pubDate : i \in DOMAIN s})

\* keeps, per link, only the latest item (first of the sorted sequence)
merge_deduplicated(s) ==
    LET t == sorted_reverse(s)
        keep == {i \in DOMAIN t : \A j \in 1..(i - 1) : t[j].link # t[i].link}
        RECURSIVE pick(_)
        pick(i) == IF i > Len(t) THEN <<>>
                   ELSE (IF i \in keep THEN <<t[i]>> ELSE <<>>) \o pick(i + 1)
    IN  SubSeq(pick(1), 1, Min(TopN, Len(pick(1))))

merge_ascending(s) == SubSeq(sorted_ascending(s), 1, Min(TopN, Len(s)))

\* top50 = sorted(all_items, ...)[:50]
merge_top50(s) == SubSeq(sorted_reverse(s), 1, Min(TopN, Len(s)))

\* the <item> elements of feed.xml
rss_items(items) ==
    [i \in DOMAIN items |->
        [link |-> items[i].link, guid |-> items[i].link,
         pubDate |-> items[i].pubDate]]

FeedInit ==
    /\ all_items = <<>> /\ feedIdx = 1 /\ fpc = "parsing"
    /\ top50 = <<>> /\ feedXml = <<>>

\* data = feedparser.parse(url); for e in data.entries: all_items.append(...)
\* datetime(*None[:6]) raises TypeError: the script ends without a feed.xml
ParseFeed ==
    /\ fpc = "parsing" /\ feedIdx <= NumFeeds
    /\ \E entries \in FeedEntries(feedIdx) :
         IF \E i \in DOMAIN entries : entries[i].published = <<>>
         THEN /\ fpc' = "crashed"
              /\ UNCHANGED <<all_items, feedIdx>>
         ELSE /\ all_items' = all_items \o [i \in DOMAIN entries |-> item(entries[i])]
              /\ feedIdx' = feedIdx + 1
              /\ fpc' = fpc
    /\ UNCHANGED <<top50, feedXml>>
    /\ UNCHANGED pollVars

SortItems ==
    /\ fpc = "parsing" /\ feedIdx > NumFeeds
    /\ top50' = merge_top50(all_items)
    /\ fpc' = "sorted"
    /\ UNCHANGED <<all_items, feedIdx, feedXml>>
    /\ UNCHANGED pollVars

\* with open("feed.xml", "wb") as f: f.write(tostring(rss, ...))
WriteFeed ==
    /\ fpc = "sorted"
    /\ feedXml' = <<rss_items(top50)>>
    /\ fpc' = "done"
    /\ UNCHANGED <<all_items, feedIdx, top50>>
    /\ UNCHANGED pollVars

FeedNext ==
    \/ ParseFeed
    \/ SortItems
    \/ WriteFeed

FeedIdle ==
    /\ all_items = <<>> /\ feedIdx = 1 /\ fpc = "idle"
    /\ top50 = <<>> /\ feedXml = <<>>

Init == PollInit /\ FeedIdle

Next == PollNext

Spec == Init /\ [][Next]_vars

FeedSpecInit == PollIdle /\ FeedInit

FeedSpec == FeedSpecInit /\ [][FeedNext]_vars

(***************************************************************************)
(* Properties of the polling loop (checked under Spec).                    *)
(***************************************************************************)
Built(ex) == IF ex = "NSE" THEN nse ELSE bse

AuthFailure(k) == k \in {"Unauthorized", "Forbidden"}

FetchFailed ==
    warmupFailed \/ (attempts # <<>> /\ attempts[Len(attempts)] # "Success")

\* C1: a cycle that has run to its end (the loop is asleep) has produced one
\* record for each of the two tickers of the symbol, whatever the upstreams
\* answered.
C1_OneResultPerSymbol ==
    pc = "sleep" => Len(nse) = 1 /\ Len(bse) = 1

C3_RetriedOnceAfterRenewal ==
    (Len(nse) = 1 /\ attempts # <<>>
        /\ \A i \in DOMAIN attempts : attempts[i] = "Forbidden")
    => Len(attempts) = 2 /\ warmups = 2

\* C3 as amended: a 403 on the quote request ends the fetch at once: one
\* warm-up, one quote request, no renewal, the record built with empty circuits.
C3_ForbiddenEndsFetchWithoutRetry ==
    (attempts # <<>> /\ attempts[1] = "Forbidden")
    => /\ attempts = <<"Forbidden">>
       /\ warmups = 1
       /\ decision = "GiveUp"
       /\ Len(nse) = 1
       /\ nse[1].lower_circuit = "" /\ nse[1].upper_circuit = ""

\* C3 witness: a fetch has ended after a single 403.
C3_ForbiddenFetchEnded ==
    attempts = <<"Forbidden">> /\ Len(nse) = 1 /\ pc = "make_bse"

\* C4 as claimed: after a failed quote request the fetch gives up only at
\* attempt maxRetries or later, or on an auth failure that follows a renewal
\* of the session.
C4_GiveUpOnlyAtLimitOrAfterRenewal ==
    (decision = "GiveUp" /\ attempts # <<>>)
    => \/ Len(attempts) >= maxRetries
       \/ AuthFailure(attempts[Len(attempts)]) /\ warmups > 1

\* C4 as amended: the decision after any failure, of any kind and at the
\* first attempt already, is GiveUp; a fetch never makes a second attempt and
\* never warms up twice.
C4_EveryFailureGivesUp ==
    /\ decision \in {"", "GiveUp"}
    /\ FetchFailed => decision = "GiveUp"
    /\ Len(attempts) <= 1
    /\ warmups <= 1

\* C4 witness: the fetch gave up at attempt 1 on a plain network error.
C4_GaveUpAtFirstNetworkError ==
    /\ decision = "GiveUp" /\ attempts = <<"NetworkError">>
    /\ Len(attempts) < maxRetries /\ warmups = 1

\* C7: an exception of a cycle is logged and followed by the sleep and the
\* next cycle; the loop stops on KeyboardInterrupt alone.
C7_LoopStopsOnlyOnInterrupt ==
    [][ /\ pc' = "stopped" => err' = "KeyboardInterrupt"
        /\ (err' # err /\ err' \notin {"", "KeyboardInterrupt"})
              => pc' = "log_error"
        /\ pc = "log_error"
              => \/ pc' = "sleep" /\ logged' = Append(logged, err)
                 \/ pc' = "stopped"
        /\ pc = "sleep" => pc' \in {"make_nse", "stopped"} ]_vars

\* C7 witness: a failed CSV append was logged and the loop is asleep.
C7_ErrorLoggedLoopAsleep ==
    pc = "sleep" /\ logged = <<"OSError">> /\ Len(csvTail) = 1

\* C8 as claimed: a failed warm-up aborts the cycle before any quote request
\* and is reported to the caller.
C8_WarmUpFailureAbortsCycle ==
    warmupFailed
    => /\ attempts = <<>>
       /\ nse = <<>> /\ csvTail = <<>> /\ xmlDoc = <<>>
       /\ pc \in {"log_error", "sleep", "stopped"}
       /\ err # ""

\* C8 as amended: a failed warm-up is swallowed by fetch_nse_circuits: no
\* quote request is sent, the NSE record is built with empty circuits, the
\* cycle goes on, and no connection error ever reaches main.
C8_WarmUpFailureIsSwallowed ==
    /\ err \in {"", "ValueError", "OSError", "KeyboardInterrupt"}
    /\ warmupFailed
       => /\ attempts = <<>> /\ inflight.quote = 0
          /\ decision = "GiveUp"
          /\ Len(nse) = 1
          /\ nse[1].lower_circuit = "" /\ nse[1].upper_circuit = ""

\* C8 witness: the warm-up failed and the cycle still wrote CSV and XML.
C8_OutputsWrittenAfterFailedWarmUp ==
    warmupFailed /\ Len(csvTail) = 2 /\ Len(xmlDoc) = 1 /\ err = ""

\* C9: in every record built, a numeric field the upstream left out is
\* emitted as "" and a field the upstream gave as 0 is not.
C9_AbsentAndZeroStayDistinct ==
    \A ex \in Exchanges : \A f \in NumericFields :
        Len(Built(ex)) = 1
        => /\ upstream[ex][f] = None => Built(ex)[1][f] = ""
           /\ upstream[ex][f] = Num(0) => Built(ex)[1][f] # ""

\* C10: nothing is written before both records are built; the two CSV rows
\* come before the XML, the push after it; a cycle whose record building
\* raised has written nothing.
C10_RecordsBeforeOutputs ==
    /\ (csvTail # <<>> \/ xmlDoc # <<>> \/ pushCalls # <<>>)
          => Len(nse) = 1 /\ Len(bse) = 1
    /\ Len(csvTail) = 1 => csvTail = <<csv_row(nse[1])>>
    /\ Len(csvTail) = 2 => csvTail = <<csv_row(nse[1]), csv_row(bse[1])>>
    /\ Len(csvTail) <= 2
    /\ xmlDoc # <<>> => Len(csvTail) = 2
    /\ pushCalls # <<>> => gitPush /\ xmlDoc # <<>> /\ Len(pushCalls) = 1
    /\ err = "ValueError"
          => csvTail = <<>> /\ xmlDoc = <<>> /\ pushCalls = <<>>

\* C10 witness: building the BSE record raised; nothing was written.
C10_SecondRecordRaisedNothingWritten ==
    /\ pc = "log_error" /\ err = "ValueError" /\ Len(nse) = 1 /\ bse = <<>>
    /\ csvTail = <<>> /\ xmlDoc = <<>>

(***************************************************************************)
(* Properties of the combined feed (checked under FeedSpec).               *)
(***************************************************************************)
Merged == fpc \in {"sorted", "done"}

\* the same items with the neighbours i and i+1 arriving the other way round
SwapAt(s, i) ==
    [j \in DOMAIN s |-> IF j = i THEN s[i + 1] ELSE IF j = i + 1 THEN s[i] ELSE s[j]]

\* where item i of s stands once s is ordered latest first, ties by arrival
Rank(s, i) ==
    Cardinality({j \in DOMAIN s : s[j].pubDate > s[i].pubDate})
    + Cardinality({j \in 1..i : s[j].pubDate = s[i].pubDate})

Count(s, x) == Cardinality({j \in DOMAIN s : s[j] = x})

\* C5 as claimed: latest first, ties by the item's key ascending, at most
\* TopN long, and the same whatever order the items arrived in.
C5_TiesBrokenBySymbol ==
    Merged
    => /\ Len(top50) <= TopN
       /\ \A i, j \in DOMAIN top50 :
            i < j => \/ top50[i].pubDate > top50[j].pubDate
                     \/ /\ top50[i].pubDate = top50[j].pubDate
                        /\ top50[i].link <= top50[j].link
       /\ \A i \in 1..(Len(all_items) - 1) :
            merge_top50(SwapAt(all_items, i)) = top50

\* C5 as amended: latest first with ties in arrival order, min(TopN, n) long;
\* the output is the same for two arrival orders that differ by swaps of
\* items of different timestamps.
C5_StableDescendingTopN ==
    Merged
    => /\ Len(top50) = Min(TopN, Len(all_items))
       /\ \A i, j \in DOMAIN top50 :
            i < j => top50[i].pubDate >= top50[j].pubDate
       /\ \A i \in DOMAIN all_items :
            Rank(all_items, i) <= TopN
               => top50[Rank(all_items, i)] = all_items[i]
       /\ \A i \in 1..(Len(all_items) - 1) :
            all_items[i].pubDate # all_items[i + 1].pubDate
               => merge_top50(SwapAt(all_items, i)) = top50

\* C5 witness: a cut output holding a tie that is not in key order.
C5_TruncatedWithTieInArrivalOrder ==
    /\ fpc = "done" /\ Len(all_items) > TopN /\ Len(top50) = TopN
    /\ \E i, j \in DOMAIN top50 :
         /\ i < j /\ top50[i].pubDate = top50[j].pubDate
         /\ top50[i].link > top50[j].link

\* C6 as claimed: of two items of one key only the later is kept, and no key
\* appears twice in the output.
C6_KeepsOnlyLatestPerSymbol ==
    Merged
    => /\ \A i, j \in DOMAIN top50 : i # j => top50[i].link # top50[j].link
       /\ \A i, j \in DOMAIN all_items :
            (all_items[i].link = all_items[j].link
                /\ all_items[i].pubDate < all_items[j].pubDate)
            => /\ Count(top50, all_items[j]) > 0
               /\ Count(top50, all_items[i]) = 0

\* C6 as amended: nothing is deduplicated.  Every item of an input of at
\* most TopN items is in the output as often as in the input, and of two
\* items of one key the later stands ahead of the earlier whenever the
\* earlier is in the output.
C6_NothingDeduplicated ==
    Merged
    => /\ Len(top50) = Min(TopN, Len(all_items))
       /\ \A i \in DOMAIN all_items :
            /\ Count(top50, all_items[i]) <= Count(all_items, all_items[i])
            /\ Len(all_items) <= TopN
                  => Count(top50, all_items[i]) = Count(all_items, all_items[i])
       /\ \A i, j \in DOMAIN all_items :
            (all_items[i].link = all_items[j].link
                /\ all_items[i].pubDate < all_items[j].pubDate
                /\ Count(top50, all_items[i]) > 0)
            => \E p, q \in DOMAIN top50 :
                 p < q /\ top50[p] = all_items[j] /\ top50[q] = all_items[i]

\* C6 witness: the written feed holds a key twice, the later entry first.
C6_SameKeyKeptTwice ==
    /\ fpc = "done"
    /\ \E p, q \in DOMAIN top50 :
         /\ p < q /\ top50[p].link = top50[q].link
         /\ top50[p].pubDate > top50[q].pubDate
    /\ Len(feedXml[1]) = Len(top50)

====
